---- MODULE Spec2Model ----
(***************************************************************************)
(* Greedy meshing of a cubic voxel chunk (src/src/geometry/greedymesh.rs). *)
(* The state is that of one call of greedy_mesh on one Chunk: the chunk,   *)
(* the six face queues, the position of each direction's pass and the      *)
(* three output buffers.                                                   *)
(***************************************************************************)
EXTENDS Integers, Sequences, FiniteSets, TLC

\* ------------------------------------------------------------------ bounds
\* Largest chunk side that is explored.
MaxN == 2
\* Number of cells (in x,y,z scan order) whose solidity is chosen freely;
\* every later cell shares one fill value.
MaxFree == 7
\* Largest material id given to a solid cell.
MaxMat == 2
\* Same as MaxN and MaxFree, for the concurrent run of the six passes.
ParN == 1
ParFree == 1
\* Number of passes that may be in flight at once in the concurrent run.
MaxWorkers == 2

\* ------------------------------------------------------------ the chunk
Directions == 0..5

Coords(n) == 0..(n - 1)

Cells(n) == Coords(n) \X Coords(n) \X Coords(n)

\* Position of a cell in the x, y, z nesting of the loops.
ScanIndex(c, n) == c[1] * n * n + c[2] * n + c[3]

Min(a, b) == IF a < b THEN a ELSE b

\* The chunks the model starts from: side n, the first `maxfree` cells solid
\* or empty freely, the other cells all `fill`; a solid cell of even
\* coordinate sum holds material 1, one of odd sum holds material m.
Chunks(maxn, maxfree, maxmat) ==
  UNION { { [size |-> n,
             voxels |-> [c \in Cells(n) |->
                LET solid == IF ScanIndex(c, n) < maxfree
                             THEN s[ScanIndex(c, n)] ELSE fill
                IN IF solid = 0 THEN 0
                   ELSE IF (c[1] + c[2] + c[3]) % 2 = 1 THEN m ELSE 1]]
            : s \in [0..(Min(maxfree, n * n * n) - 1) -> {0, 1}],
              fill \in {0, 1},
              m \in 1..maxmat }
          : n \in 1..maxn }

\* ------------------------------------------------------- pure functions
\* Variant of face_visible: a neighbour hides the face only when it holds the
\* same material.
face_visible_material(face, direction, vox, n) ==
  CASE direction = 0 -> IF face[1] = n - 1 THEN TRUE
                        ELSE vox[<<face[1] + 1, face[2], face[3]>>] # vox[face]
    [] direction = 1 -> IF face[1] = 0 THEN TRUE
                        ELSE vox[<<face[1] - 1, face[2], face[3]>>] # vox[face]
    [] direction = 2 -> IF face[2] = n - 1 THEN TRUE
                        ELSE vox[<<face[1], face[2] + 1, face[3]>>] # vox[face]
    [] direction = 3 -> IF face[2] = 0 THEN TRUE
                        ELSE vox[<<face[1], face[2] - 1, face[3]>>] # vox[face]
    [] direction = 4 -> IF face[3] = n - 1 THEN TRUE
                        ELSE vox[<<face[1], face[2], face[3] + 1>>] # vox[face]
    [] direction = 5 -> IF face[3] = 0 THEN TRUE
                        ELSE vox[<<face[1], face[2], face[3] - 1>>] # vox[face]

\* face_visible: the face is not hidden by another voxel.
face_visible(face, direction, vox, n) ==
  CASE direction = 0 -> IF face[1] = n - 1 THEN TRUE
                        ELSE vox[<<face[1] + 1, face[2], face[3]>>] = 0
    [] direction = 1 -> IF face[1] = 0 THEN TRUE
                        ELSE vox[<<face[1] - 1, face[2], face[3]>>] = 0
    [] direction = 2 -> IF face[2] = n - 1 THEN TRUE
                        ELSE vox[<<face[1], face[2] + 1, face[3]>>] = 0
    [] direction = 3 -> IF face[2] = 0 THEN TRUE
                        ELSE vox[<<face[1], face[2] - 1, face[3]>>] = 0
    [] direction = 4 -> IF face[3] = n - 1 THEN TRUE
                        ELSE vox[<<face[1], face[2], face[3] + 1>>] = 0
    [] direction = 5 -> IF face[3] = 0 THEN TRUE
                        ELSE vox[<<face[1], face[2], face[3] - 1>>] = 0

\* Variant of OutOfRange: > in place of >=.
OutOfRange_gt(face, n) == face[1] > n \/ face[2] > n \/ face[3] > n

\* The range test at the head of face_exists.
OutOfRange(face, n) == face[1] >= n \/ face[2] >= n \/ face[3] >= n

\* face_exists: the face is in range and still queued. face_set is the
\* whole queue, indexed by direction and then by cell.
face_exists(face, direction, face_set, n) ==
  IF OutOfRange(face, n)
  THEN FALSE
  ELSE face_set[direction][face] = 1

\* The queue indices a call of face_exists reads.
face_exists_reads(face, n) == IF OutOfRange(face, n) THEN {} ELSE {face}

\* The grid indices a call of face_visible reads.
face_visible_reads(face, direction, n) ==
  CASE direction = 0 -> IF face[1] = n - 1 THEN {}
                        ELSE {<<face[1] + 1, face[2], face[3]>>}
    [] direction = 1 -> IF face[1] = 0 THEN {}
                        ELSE {<<face[1] - 1, face[2], face[3]>>}
    [] direction = 2 -> IF face[2] = n - 1 THEN {}
                        ELSE {<<face[1], face[2] + 1, face[3]>>}
    [] direction = 3 -> IF face[2] = 0 THEN {}
                        ELSE {<<face[1], face[2] - 1, face[3]>>}
    [] direction = 4 -> IF face[3] = n - 1 THEN {}
                        ELSE {<<face[1], face[2], face[3] + 1>>}
    [] direction = 5 -> IF face[3] = 0 THEN {}
                        ELSE {<<face[1], face[2], face[3] - 1>>}

\* Variant of expand_direction: the up and down faces grow in height along
\* y, their own normal axis.
expand_direction_swapped(direction) ==
  CASE direction \in {0, 1} -> [width |-> <<0, 0, 1>>, height |-> <<0, 1, 0>>]
    [] direction \in {2, 3} -> [width |-> <<1, 0, 0>>, height |-> <<0, 1, 0>>]
    [] direction \in {4, 5} -> [width |-> <<1, 0, 0>>, height |-> <<0, 1, 0>>]

\* expand_direction: the width and height axes of a direction.
expand_direction(direction) ==
  CASE direction \in {0, 1} -> [width |-> <<0, 0, 1>>, height |-> <<0, 1, 0>>]
    [] direction \in {2, 3} -> [width |-> <<1, 0, 0>>, height |-> <<0, 0, 1>>]
    [] direction \in {4, 5} -> [width |-> <<1, 0, 0>>, height |-> <<0, 1, 0>>]

\* The cell w steps along the width axis and h steps along the height axis
\* from face.
Offset(face, expand, w, h) ==
  << face[1] + expand.width[1] * w + expand.height[1] * h,
     face[2] + expand.width[2] * w + expand.height[2] * h,
     face[3] + expand.width[3] * w + expand.height[3] * h >>

\* Variant of can_extend_row: only the first cell of the row is tested.
can_extend_row_first(height, width, direction, face, face_set, vox, n) ==
  LET next_face == Offset(face, expand_direction(direction), 0, height)
  IN face_exists(next_face, direction, face_set, n)
     /\ face_visible(next_face, direction, vox, n)

\* Variant of can_extend_row: any() in place of all().
can_extend_row_any(height, width, direction, face, face_set, vox, n) ==
  \E w \in 0..(width - 1) :
    LET next_face == Offset(face, expand_direction(direction), w, height)
    IN face_exists(next_face, direction, face_set, n)
       /\ face_visible(next_face, direction, vox, n)

\* can_extend_row: every cell of row `height` is queued and visible.
can_extend_row(height, width, direction, face, face_set, vox, n) ==
  \A w \in 0..(width - 1) :
    LET next_face == Offset(face, expand_direction(direction), w, height)
    IN face_exists(next_face, direction, face_set, n)
       /\ face_visible(next_face, direction, vox, n)

\* Variant of next_face: the innermost loop stops one cell early.
next_face_short(cursor, face_set, n, direction) ==
  LET scan[c \in (0..n) \X (0..n) \X (0..n)] ==
        IF c[1] < n
        THEN IF c[2] < n
             THEN IF c[3] < n - 1
                  THEN IF face_set[direction][c] = 1
                       THEN [found |-> TRUE, next_face |-> c]
                       ELSE scan[<<c[1], c[2], c[3] + 1>>]
                  ELSE scan[<<c[1], c[2] + 1, 0>>]
             ELSE scan[<<c[1] + 1, 0, c[3]>>]
        ELSE [found |-> FALSE, next_face |-> c]
  IN scan[cursor]

\* FaceFinder::next_face: scan on from the cursor, in the order of the three
\* nested loops (x, then y, then z), to the next queued cell. The result
\* holds the cursor as the call leaves it.
next_face(cursor, face_set, n, direction) ==
  LET scan[c \in (0..n) \X (0..n) \X (0..n)] ==
        IF c[1] < n
        THEN IF c[2] < n
             THEN IF c[3] < n
                  THEN IF face_set[direction][c] = 1
                       THEN [found |-> TRUE, next_face |-> c]
                       ELSE scan[<<c[1], c[2], c[3] + 1>>]
                  ELSE scan[<<c[1], c[2] + 1, 0>>]
             ELSE scan[<<c[1] + 1, 0, c[3]>>]
        ELSE [found |-> FALSE, next_face |-> c]
  IN scan[cursor]

\* The queue indices a call of FaceFinder::next_face reads.
next_face_reads(cursor, face_set, n, direction) ==
  LET scan[c \in (0..n) \X (0..n) \X (0..n)] ==
        IF c[1] < n
        THEN IF c[2] < n
             THEN IF c[3] < n
                  THEN {c} \cup (IF face_set[direction][c] = 1
                                 THEN {}
                                 ELSE scan[<<c[1], c[2], c[3] + 1>>])
                  ELSE scan[<<c[1], c[2] + 1, 0>>]
             ELSE scan[<<c[1] + 1, 0, c[3]>>]
        ELSE {}
  IN scan[cursor]

\* Variant of InitialQueue: empty voxels are not skipped.
InitialQueue_noskip(vox, n) ==
  [d \in Directions |->
    [c \in Cells(n) |-> IF face_visible(c, d, vox, n) THEN 1 ELSE 0]]

\* Variant of InitialQueue: every face of a solid voxel is queued, visible
\* or not.
InitialQueue_all(vox, n) ==
  [d \in Directions |-> [c \in Cells(n) |-> IF vox[c] = 0 THEN 0 ELSE 1]]

\* The queue as the initialization loops leave it: a cell of direction d is
\* queued when its voxel is not empty and its face in direction d is visible.
InitialQueue(vox, n) ==
  [d \in Directions |->
    [c \in Cells(n) |->
      IF vox[c] = 0 THEN 0
      ELSE IF face_visible(c, d, vox, n) THEN 1 ELSE 0]]

\* Variant of Dequeue: one mask shared by the six directions.
Dequeue_shared(face_set, d, c) ==
  [e \in DOMAIN face_set |-> [face_set[e] EXCEPT ![c] = 0]]

\* face_queue[d][x][y][z] = 0
Dequeue(face_set, d, c) == [face_set EXCEPT ![d][c] = 0]


\* ------------------------------------------------------ mesh assembly
\* Variant of extra: the offset is added for the negative directions too.
extra_all(d) ==
  << IF d \in {0, 1} THEN 1 ELSE 0,
     IF d \in {2, 3} THEN 1 ELSE 0,
     IF d \in {4, 5} THEN 1 ELSE 0 >>

\* extra_x, extra_y, extra_z: one unit along the normal for the positive
\* directions.
extra(d) ==
  << IF d = 0 THEN 1 ELSE 0,
     IF d = 2 THEN 1 ELSE 0,
     IF d = 4 THEN 1 ELSE 0 >>

Add3(a, b) == << a[1] + b[1], a[2] + b[2], a[3] + b[3] >>

\* The four vertices pushed for a quad: corner, +width, +width+height,
\* +height. The coordinates are whole numbers held in f32, which is exact
\* for them.
QuadVertices(face, width, height, d) ==
  LET expand == expand_direction(d)
  IN << Add3(face, extra(d)),
        Add3(Offset(face, expand, width, 0), extra(d)),
        Add3(Offset(face, expand, width, height), extra(d)),
        Add3(Offset(face, expand, 0, height), extra(d)) >>

Reverse(s) == [i \in 1..Len(s) |-> s[Len(s) + 1 - i]]

\* Variant of QuadIndices: direction 4 reversed in place of direction 5.
QuadIndices_flip4(d, nverts) ==
  LET idx == IF d = 0 \/ d = 2 \/ d = 4
             THEN Reverse(<<0, 1, 2, 2, 3, 0>>)
             ELSE <<0, 1, 2, 2, 3, 0>>
  IN [i \in 1..6 |-> idx[i] + (nverts - 4)]

\* Variant of QuadIndices: offset by the vertex count, without the - 4.
QuadIndices_end(d, nverts) ==
  LET idx == IF d = 0 \/ d = 2 \/ d = 5
             THEN Reverse(<<0, 1, 2, 2, 3, 0>>)
             ELSE <<0, 1, 2, 2, 3, 0>>
  IN [i \in 1..6 |-> idx[i] + nverts]

\* The six indices of a quad, once its four vertices are pushed and the
\* vertex buffer holds nverts vertices.
QuadIndices(d, nverts) ==
  LET idx == IF d = 0 \/ d = 2 \/ d = 5
             THEN Reverse(<<0, 1, 2, 2, 3, 0>>)
             ELSE <<0, 1, 2, 2, 3, 0>>
  IN [i \in 1..6 |-> idx[i] + (nverts - 4)]

\* The normal pushed four times for a quad of direction d.
Normal(d) ==
  CASE d = 0 -> <<1, 0, 0>>
    [] d = 1 -> <<-1, 0, 0>>
    [] d = 2 -> <<0, 1, 0>>
    [] d = 3 -> <<0, -1, 0>>
    [] d = 4 -> <<0, 0, 1>>
    [] d = 5 -> <<0, 0, -1>>

\* --------------------------------------------------------------- state
VARIABLES
  size,         \* chunk.size
  voxels,       \* chunk.voxels, by cell
  face_queue,   \* face_queue, by direction and cell
  phase,        \* "init": before the queue is filled; "mesh"; "returned"
  pc,           \* by direction, the position of its pass:
                \* "idle", "find", "width", "height", "emit", "done"
  face_finder,  \* by direction, face_finder.next_face
  face,         \* by direction, the seed of the quad being built
  width,        \* by direction
  height,       \* by direction
  quads,        \* by direction, the quads emitted: <<face, width, height>>
  vertices,     \* the output buffers
  indices,
  normals

vars == << size, voxels, face_queue, phase, pc, face_finder, face, width,
           height, quads, vertices, indices, normals >>

\* The shape of the state: Chunk (size, voxels), FaceQueue (face_queue),
\* FaceFinder (face_finder), the locals of greedy_mesh's loops and its three
\* output vectors.
TypeOK ==
  /\ size \in 1..MaxN
  /\ voxels \in [Cells(size) -> 0..MaxMat]
  /\ face_queue \in [Directions -> [Cells(size) -> {0, 1}]]
  /\ phase \in {"init", "mesh", "returned"}
  /\ pc \in [Directions -> {"idle", "find", "width", "height", "emit", "done"}]
  /\ face_finder \in [Directions -> (0..size) \X (0..size) \X (0..size)]
  /\ face \in [Directions -> Cells(size)]
  /\ width \in [Directions -> 0..size]
  /\ height \in [Directions -> 0..size]
  /\ \A d \in Directions : \A k \in 1..Len(quads[d]) :
       quads[d][k] \in Cells(size) \X (1..size) \X (1..size)
  /\ \A i \in 1..Len(vertices) : vertices[i] \in (0..size) \X (0..size) \X (0..size)
  /\ \A i \in 1..Len(indices) : indices[i] \in 0..(Len(vertices) - 1)
  /\ \A i \in 1..Len(normals) : normals[i] \in { Normal(d) : d \in Directions }

chunkVars == << size, voxels >>
bufferVars == << vertices, indices, normals >>

\* A value for `face` while no quad is being built.
NoFace == <<0, 0, 0>>

InitOf(chunks) ==
  /\ \E chunk \in chunks :
       /\ size = chunk.size
       /\ voxels = chunk.voxels
  /\ face_queue = [d \in Directions |-> [c \in Cells(size) |-> 0]]
  /\ phase = "init"
  /\ pc = [d \in Directions |-> "idle"]
  /\ face_finder = [d \in Directions |-> <<0, 0, 0>>]
  /\ face = [d \in Directions |-> NoFace]
  /\ width = [d \in Directions |-> 0]
  /\ height = [d \in Directions |-> 0]
  /\ quads = [d \in Directions |-> <<>>]
  /\ vertices = <<>>
  /\ indices = <<>>
  /\ normals = <<>>

Init == InitOf(Chunks(MaxN, MaxFree, MaxMat))

\* ------------------------------------------------------------- actions
\* The initialization loops over every voxel and direction.
InitQueue ==
  /\ phase = "init"
  /\ face_queue' = InitialQueue(voxels, size)
  /\ phase' = "mesh"
  /\ UNCHANGED << chunkVars, pc, face_finder, face, width, height, quads,
                  bufferVars >>

\* The head of one iteration of the loop over the directions: a new
\* FaceFinder.
StartPass(d) ==
  /\ phase = "mesh"
  /\ pc[d] = "idle"
  /\ face_finder' = [face_finder EXCEPT ![d] = <<0, 0, 0>>]
  /\ pc' = [pc EXCEPT ![d] = "find"]
  /\ UNCHANGED << chunkVars, face_queue, phase, face, width, height, quads,
                  bufferVars >>

\* The head of the inner loop: find the next face, leave the loop if there
\* is none, else remove it from the queue, skip it if it is not visible,
\* else start a quad of width 1.
NextFace(d) ==
  /\ phase = "mesh"
  /\ pc[d] = "find"
  /\ LET r == next_face(face_finder[d], face_queue, size, d)
     IN /\ face_finder' = [face_finder EXCEPT ![d] = r.next_face]
        /\ IF ~r.found
           THEN /\ pc' = [pc EXCEPT ![d] = "done"]
                /\ UNCHANGED << face_queue, face, width >>
           ELSE /\ face_queue' = Dequeue(face_queue, d, r.next_face)
                /\ IF ~face_visible(r.next_face, d, voxels, size)
                   THEN UNCHANGED << pc, face, width >>
                   ELSE /\ face' = [face EXCEPT ![d] = r.next_face]
                        /\ width' = [width EXCEPT ![d] = 1]
                        /\ pc' = [pc EXCEPT ![d] = "width"]
  /\ UNCHANGED << chunkVars, phase, height, quads, bufferVars >>

\* One test of the width loop: consume the next cell along the width axis,
\* or leave the loop with height 1.
WidthStep(d) ==
  /\ phase = "mesh"
  /\ pc[d] = "width"
  /\ LET nf == Offset(face[d], expand_direction(d), width[d], 0)
     IN IF face_exists(nf, d, face_queue, size)
           /\ face_visible(nf, d, voxels, size)
        THEN /\ face_queue' = Dequeue(face_queue, d, nf)
             /\ width' = [width EXCEPT ![d] = @ + 1]
             /\ UNCHANGED << pc, height >>
        ELSE /\ height' = [height EXCEPT ![d] = 1]
             /\ pc' = [pc EXCEPT ![d] = "height"]
             /\ UNCHANGED << face_queue, width >>
  /\ UNCHANGED << chunkVars, phase, face_finder, face, quads, bufferVars >>

\* Variant of RemoveRow: the row before is flipped as well.
RemoveRow_prev(face_set, d, f, w, h) ==
  [face_set EXCEPT ![d] =
    [c \in DOMAIN @ |->
      IF \E i \in 0..(w - 1) : c = Offset(f, expand_direction(d), i, h)
      THEN 0
      ELSE IF \E i \in 0..(w - 1) : c = Offset(f, expand_direction(d), i, h - 1)
           THEN 1 - @[c] ELSE @[c]]]

\* The queue with the `w` cells of row `h` of the quad removed.
RemoveRow(face_set, d, f, w, h) ==
  [face_set EXCEPT ![d] =
    [c \in DOMAIN @ |->
      IF \E i \in 0..(w - 1) : c = Offset(f, expand_direction(d), i, h)
      THEN 0 ELSE @[c]]]

\* One test of the height loop: consume the whole next row, or leave the
\* loop.
HeightStep(d) ==
  /\ phase = "mesh"
  /\ pc[d] = "height"
  /\ IF can_extend_row(height[d], width[d], d, face[d], face_queue, voxels, size)
     THEN /\ face_queue' = RemoveRow(face_queue, d, face[d], width[d], height[d])
          /\ height' = [height EXCEPT ![d] = @ + 1]
          /\ UNCHANGED pc
     ELSE /\ pc' = [pc EXCEPT ![d] = "emit"]
          /\ UNCHANGED << face_queue, height >>
  /\ UNCHANGED << chunkVars, phase, face_finder, face, width, quads, bufferVars >>

\* The rest of the inner loop's body: push the quad's 4 vertices, 6 indices
\* and 4 normals. face, width and height go out of scope.
EmitQuad(d) ==
  /\ phase = "mesh"
  /\ pc[d] = "emit"
  /\ vertices' = vertices \o QuadVertices(face[d], width[d], height[d], d)
  /\ indices' = indices \o QuadIndices(d, Len(vertices'))
  /\ normals' = normals \o [i \in 1..4 |-> Normal(d)]
  /\ quads' = [quads EXCEPT ![d] = Append(@, <<face[d], width[d], height[d]>>)]
  /\ face' = [face EXCEPT ![d] = NoFace]
  /\ width' = [width EXCEPT ![d] = 0]
  /\ height' = [height EXCEPT ![d] = 0]
  /\ pc' = [pc EXCEPT ![d] = "find"]
  /\ UNCHANGED << chunkVars, face_queue, phase, face_finder >>

\* After the loop over the directions: the buffers go into the mesh, which
\* is returned.
Return ==
  /\ phase = "mesh"
  /\ \A d \in Directions : pc[d] = "done"
  /\ phase' = "returned"
  /\ UNCHANGED << chunkVars, face_queue, pc, face_finder, face, width, height,
                  quads, bufferVars >>

\* The loop over the directions runs them in the order 0, 1, .. 5: direction
\* d is the current one when the passes before it have ended and its own
\* has not.
Current(d) ==
  /\ pc[d] # "done"
  /\ \A e \in 0..(d - 1) : pc[e] = "done"

Next ==
  \/ InitQueue
  \/ \E d \in Directions : Current(d) /\ StartPass(d)
  \/ \E d \in Directions : Current(d) /\ NextFace(d)
  \/ \E d \in Directions : Current(d) /\ WidthStep(d)
  \/ \E d \in Directions : Current(d) /\ HeightStep(d)
  \/ \E d \in Directions : Current(d) /\ EmitQuad(d)
  \/ Return

Spec == Init /\ [][Next]_vars

\* The call runs to its end: no step of it waits for anything.
SpecFair == Init /\ [][Next]_vars /\ WF_vars(Next)


\* ------------------------------------------- the passes run concurrently
\* The six passes as tasks of a pool of MaxWorkers workers: a pass may be
\* started at any time a worker is free, in any order, and the passes in
\* flight take their steps in any interleaving. Each pass writes the quads
\* it builds to its own buffer, quads[d].
InFlight == { e \in Directions : pc[e] \notin {"idle", "done"} }

Admitted(d) ==
  \/ d \in InFlight
  \/ pc[d] = "idle" /\ Cardinality(InFlight) < MaxWorkers

ParEmitQuad(d) ==
  /\ phase = "mesh"
  /\ pc[d] = "emit"
  /\ quads' = [quads EXCEPT ![d] = Append(@, <<face[d], width[d], height[d]>>)]
  /\ face' = [face EXCEPT ![d] = NoFace]
  /\ width' = [width EXCEPT ![d] = 0]
  /\ height' = [height EXCEPT ![d] = 0]
  /\ pc' = [pc EXCEPT ![d] = "find"]
  /\ UNCHANGED << chunkVars, face_queue, phase, face_finder, bufferVars >>

InitPar == InitOf(Chunks(ParN, ParFree, 1))

NextPar ==
  \/ InitQueue
  \/ \E d \in Directions : Admitted(d) /\ StartPass(d)
  \/ \E d \in Directions : Admitted(d) /\ NextFace(d)
  \/ \E d \in Directions : Admitted(d) /\ WidthStep(d)
  \/ \E d \in Directions : Admitted(d) /\ HeightStep(d)
  \/ \E d \in Directions : Admitted(d) /\ ParEmitQuad(d)
  \/ Return

SpecPar == InitPar /\ [][NextPar]_vars


\* --------------------------------------- one pass as a function of the chunk
\* The width loop run to its end from width w: the queue and the width it
\* leaves.
RECURSIVE WidthOf(_, _, _, _, _, _)
WidthOf(face_set, f, w, d, vox, n) ==
  LET nf == Offset(f, expand_direction(d), w, 0)
  IN IF face_exists(nf, d, face_set, n) /\ face_visible(nf, d, vox, n)
     THEN WidthOf(Dequeue(face_set, d, nf), f, w + 1, d, vox, n)
     ELSE [face_set |-> face_set, width |-> w]

\* The height loop run to its end from height h.
RECURSIVE HeightOf(_, _, _, _, _, _, _)
HeightOf(face_set, f, w, h, d, vox, n) ==
  IF can_extend_row(h, w, d, f, face_set, vox, n)
  THEN HeightOf(RemoveRow(face_set, d, f, w, h), f, w, h + 1, d, vox, n)
  ELSE [face_set |-> face_set, height |-> h]

\* The inner loop of direction d run to its end from the given cursor and
\* queue: the quads it emits, in order.
RECURSIVE PassQuads(_, _, _, _, _)
PassQuads(cursor, face_set, d, vox, n) ==
  LET r == next_face(cursor, face_set, n, d)
  IN IF ~r.found
     THEN <<>>
     ELSE LET f == r.next_face
              fs1 == Dequeue(face_set, d, f)
          IN IF ~face_visible(f, d, vox, n)
             THEN PassQuads(f, fs1, d, vox, n)
             ELSE LET wr == WidthOf(fs1, f, 1, d, vox, n)
                      hr == HeightOf(wr.face_set, f, wr.width, 1, d, vox, n)
                  IN << <<f, wr.width, hr.height>> >>
                     \o PassQuads(f, hr.face_set, d, vox, n)

\* The quads the sequential call on a chunk emits for direction d: the
\* queue is initialized, and the pass starts with a new FaceFinder.
PassOf(vox, n, d) == PassQuads(<<0, 0, 0>>, InitialQueue(vox, n), d, vox, n)

\* The quads of a whole call on a chunk, by direction.
MeshQuads(vox, n) == [d \in Directions |-> PassOf(vox, n, d)]

\* ------------------------------------------------ definitions for the claims
\* The cells whose face a quad covers.
Covered(q, d) ==
  { Offset(q[1], expand_direction(d), i, j) : i \in 0..(q[2] - 1), j \in 0..(q[3] - 1) }

\* The quads emitted so far in the order the sequential call pushes them,
\* each with its direction.
RECURSIVE EmittedFrom(_)
EmittedFrom(d) ==
  IF d > 5 THEN <<>>
  ELSE [k \in 1..Len(quads[d]) |->
          [d |-> d, face |-> quads[d][k][1], width |-> quads[d][k][2],
           height |-> quads[d][k][3]]] \o EmittedFrom(d + 1)

Emitted == EmittedFrom(0)

\* The set of quads of a record of quads by direction.
QuadSet(qs) ==
  UNION { { <<d, qs[d][k]>> : k \in 1..Len(qs[d]) } : d \in Directions }

\* The axis (1 = x, 2 = y, 3 = z) normal to direction d.
NormalAxis(d) == (d \div 2) + 1

Sub3(a, b) == << a[1] - b[1], a[2] - b[2], a[3] - b[3] >>

Cross(a, b) ==
  << a[2] * b[3] - a[3] * b[2],
     a[3] * b[1] - a[1] * b[3],
     a[1] * b[2] - a[2] * b[1] >>

Dot(a, b) == a[1] * b[1] + a[2] * b[2] + a[3] * b[3]

Scale(k, a) == << k * a[1], k * a[2], k * a[3] >>

AllSolid == \A c \in Cells(size) : voxels[c] # 0
AllEmpty == \A c \in Cells(size) : voxels[c] = 0

QueueFalse(d) == \A c \in Cells(size) : face_queue[d][c] = 0

\* The chunk with every material id replaced by 1.
Normalized(vox) == [c \in DOMAIN vox |-> IF vox[c] = 0 THEN 0 ELSE 1]


\* -------------------------------------------------------------------- claims
\* C1: when greedy_mesh has finished, for every direction d the quads
\* emitted for d cover only cells of the grid, and every cell is covered by
\* exactly one quad if it is solid and its face in direction d is visible,
\* and by no quad otherwise.
C1_CoverageExact ==
  phase = "returned" =>
    \A d \in Directions :
      /\ \A k \in 1..Len(quads[d]) : Covered(quads[d][k], d) \subseteq Cells(size)
      /\ \A c \in Cells(size) :
           Cardinality({ k \in 1..Len(quads[d]) : c \in Covered(quads[d][k], d) })
             = IF voxels[c] # 0 /\ face_visible(c, d, voxels, size) THEN 1 ELSE 0

\* A finished call in which one direction has several quads, one of them
\* wider than a cell, and a solid cell with a hidden face.
C1_Witness ==
  /\ phase = "returned"
  /\ \E d \in Directions :
       /\ Len(quads[d]) >= 2
       /\ \E k \in 1..Len(quads[d]) : quads[d][k][2] >= 2
       /\ \E c \in Cells(size) : voxels[c] # 0 /\ ~face_visible(c, d, voxels, size)

\* C2: for a chunk whose cells are all solid, greedy_mesh emits exactly 6
\* quads, one per direction, each of width N and height N.
C2_FullCube ==
  (phase = "returned" /\ AllSolid) =>
    /\ Len(vertices) = 4 * 6
    /\ \A d \in Directions :
         /\ Len(quads[d]) = 1
         /\ quads[d][1][2] = size
         /\ quads[d][1][3] = size

C2_Witness == phase = "returned" /\ AllSolid /\ size >= 2

\* C3: for a chunk whose cells are all empty, no face is ever queued and no
\* quad is emitted: the vertex, normal and index sequences have length 0
\* throughout the call and at its return.
C3_EmptyGrid ==
  AllEmpty =>
    /\ \A d \in Directions : QueueFalse(d) /\ quads[d] = <<>>
    /\ Len(vertices) = 0
    /\ Len(normals) = 0
    /\ Len(indices) = 0

C3_Witness == phase = "returned" /\ AllEmpty /\ size >= 2


\* The value the vertices of emitted quad k have along the axis normal to
\* the quad's direction, when they all have the same one.
OnPlane(k, d, v) ==
  \A j \in 1..4 : vertices[4 * (k - 1) + j][NormalAxis(d)] = v

\* C4, as stated: for every emitted quad, the coordinate of each of its 4
\* vertices along the axis normal to its direction is 0 or N.
C4_NormalCoordZeroOrN ==
  LET E == Emitted
  IN \A k \in 1..Len(E) :
       \A j \in 1..4 :
         vertices[4 * (k - 1) + j][NormalAxis(E[k].d)] \in {0, size}

\* C4, amended: for every emitted quad, the coordinate of each of its 4
\* vertices along the axis normal to its direction is the same whole
\* number in 0..N, namely the seed's coordinate plus 1 for the directions
\* 0, 2, 4 and the seed's coordinate for 1, 3, 5; it is 0 or N exactly when
\* the seed lies in the outermost layer of the grid in that direction.
C4_NormalCoordOnFacePlane ==
  LET E == Emitted
  IN \A k \in 1..Len(E) :
       LET q == E[k]
           a == NormalAxis(q.d)
           plane == q.face[a] + (IF q.d \in {0, 2, 4} THEN 1 ELSE 0)
           outer == IF q.d \in {0, 2, 4} THEN q.face[a] = size - 1 ELSE q.face[a] = 0
       IN /\ OnPlane(k, q.d, plane)
          /\ plane \in 0..size
          /\ (plane \in {0, size}) <=> outer

\* A finished call that emitted a quad strictly inside the grid, and one on
\* its boundary.
C4_Witness ==
  /\ phase = "returned"
  /\ \E k \in 1..Len(Emitted) : \E v \in 1..(size - 1) : OnPlane(k, Emitted[k].d, v)
  /\ \E k \in 1..Len(Emitted) : OnPlane(k, Emitted[k].d, size)

\* C5: for every emitted quad, both triangles in the index buffer are wound
\* counter-clockwise seen from outside: for each index triple (a, b, c),
\* (v[b] - v[a]) x (v[c] - v[a]) is a positive multiple of the unit normal
\* of the quad's direction, which is the normal written for its 4 vertices.
C5_WindingOutward ==
  LET E == Emitted
  IN \A k \in 1..Len(E) :
       LET nrm == Normal(E[k].d)
       IN /\ \A j \in 1..4 : normals[4 * (k - 1) + j] = nrm
          /\ \A t \in 0..1 :
               LET a == vertices[indices[6 * (k - 1) + 3 * t + 1] + 1]
                   b == vertices[indices[6 * (k - 1) + 3 * t + 2] + 1]
                   c == vertices[indices[6 * (k - 1) + 3 * t + 3] + 1]
                   x == Cross(Sub3(b, a), Sub3(c, a))
               IN Dot(x, nrm) > 0 /\ x = Scale(Dot(x, nrm), nrm)

\* A finished call with a quad in each of the six directions, one of them
\* larger than a cell.
C5_Witness ==
  /\ phase = "returned"
  /\ \A d \in Directions : Len(quads[d]) >= 1
  /\ \E k \in 1..Len(Emitted) : Emitted[k].width >= 2 /\ Emitted[k].height >= 2

\* The number of quads emitted so far.
QuadCount ==
  Len(quads[0]) + Len(quads[1]) + Len(quads[2]) + Len(quads[3]) + Len(quads[4])
    + Len(quads[5])

\* C6: at every moment, with q quads emitted, the vertex and normal
\* sequences have length 4q and the index sequence has length 6q, and the
\* k-th group of 6 indices (k from 0) takes its values in 4k .. 4k+3 and
\* uses each of them.
C6_BuffersParallel ==
  LET q == QuadCount
  IN /\ Len(vertices) = 4 * q
     /\ Len(normals) = 4 * q
     /\ Len(indices) = 6 * q
     /\ \A k \in 0..(q - 1) :
          { indices[6 * k + i] : i \in 1..6 } = (4 * k)..(4 * k + 3)

C6_Witness == phase = "mesh" /\ QuadCount >= 3 /\ Len(indices) = 6 * QuadCount


\* C7: once the queue has been initialized, every step only changes queue
\* cells from true to false: a cell that is false is never true again.
C7_QueueOnlyDrains ==
  [][ phase = "mesh" =>
        \A d \in Directions : \A c \in Cells(size) :
          face_queue[d][c] = 0 => face_queue'[d][c] = 0 ]_vars

\* The height loop has consumed a row, after the seed and the width loop
\* consumed the cells before it.
C7_Witness ==
  /\ phase = "mesh"
  /\ \E d \in Directions :
       /\ pc[d] = "height" /\ width[d] >= 2 /\ height[d] >= 2
       /\ \A c \in Covered(<<face[d], width[d], height[d]>>, d) :
            InitialQueue(voxels, size)[d][c] = 1 /\ face_queue[d][c] = 0

\* C8: greedy_mesh terminates: it reaches its return, and whenever the loop
\* of a direction has ended (seed-finding returned no cell) no cell of that
\* direction's queue is true, so that at the return all six queues are
\* entirely false.
C8_Terminates ==
  /\ <>(phase = "returned" /\ \A d \in Directions : QueueFalse(d))
  /\ [](\A d \in Directions : pc[d] = "done" => QueueFalse(d))

\* A call that has returned after emitting quads in every direction, with
\* several seeds in one of them.
C8_Witness ==
  /\ phase = "returned"
  /\ \A d \in Directions : pc[d] = "done" /\ Len(quads[d]) >= 1
  /\ \E d \in Directions : Len(quads[d]) >= 3

\* The part of the state that belongs to the pass of direction d.
PassState(d) ==
  << pc[d], face_finder[d], face[d], width[d], height[d], quads[d] >>

C10_DeterminedBySolidity ==
  phase = "returned" =>
    QuadSet(quads) = QuadSet(MeshQuads(Normalized(voxels), size))

\* A finished call on a chunk with two adjacent solid cells of different
\* material ids.
C10_Witness ==
  /\ phase = "returned"
  /\ size >= 2
  /\ voxels[<<0, 0, 0>>] # 0
  /\ voxels[<<0, 0, 1>>] # 0
  /\ voxels[<<0, 0, 0>>] # voxels[<<0, 0, 1>>]


\* The cells of the queue of direction d that are true.
Queued(d) == { c \in Cells(size) : face_queue[d][c] = 1 }

\* C11: at every point of a call, every cell that is true in a direction's
\* queue is a solid voxel whose face in that direction is visible; so the
\* visibility test of the width and height loops never changes the outcome
\* of the queue-membership test, and the re-check after dequeuing never
\* discards a seed: a step that dequeues a seed starts a quad at that seed,
\* and the pass emits that quad before it looks for another seed.
C11_QueuedFacesVisible ==
  /\ [](\A d \in Directions :
          /\ \A c \in Queued(d) :
               voxels[c] # 0 /\ face_visible(c, d, voxels, size)
          /\ pc[d] = "width" =>
               LET nf == Offset(face[d], expand_direction(d), width[d], 0)
               IN face_exists(nf, d, face_queue, size)
                    => face_visible(nf, d, voxels, size)
          /\ pc[d] = "height" =>
               \A w \in 0..(width[d] - 1) :
                 LET nf == Offset(face[d], expand_direction(d), w, height[d])
                 IN face_exists(nf, d, face_queue, size)
                      => face_visible(nf, d, voxels, size))
  /\ [][ \A d \in Directions :
           /\ (pc[d] = "find" /\ face_queue'[d] # face_queue[d]) =>
                /\ pc'[d] = "width"
                /\ Queued(d) \ Queued(d)' = {face'[d]}
           /\ (pc[d] = "emit" /\ pc'[d] # "emit") =>
                /\ pc'[d] = "find"
                /\ quads'[d] = Append(quads[d], <<face[d], width[d], height[d]>>)
           /\ (pc[d] \in {"width", "height"} /\ pc'[d] # pc[d]) =>
                /\ pc'[d] \in {"height", "emit"}
                /\ face'[d] = face[d] ]_vars

\* A quad is being widened from a dequeued seed while other faces of its
\* direction are still queued and a solid voxel has a hidden face in that
\* direction.
C11_Witness ==
  \E d \in Directions :
    /\ pc[d] = "width" /\ width[d] >= 2
    /\ Queued(d) # {}
    /\ \E c \in Cells(size) : voxels[c] # 0 /\ ~face_visible(c, d, voxels, size)


\* The grid and queue indices the initialization loops use: every voxel is
\* read, and for a solid one each direction's visibility is tested and its
\* queue cell may be written.
InitAccesses ==
  Cells(size)
    \cup UNION { face_visible_reads(c, d, size) :
                 c \in { x \in Cells(size) : voxels[x] # 0 }, d \in Directions }

\* The grid and queue indices the next step of the pass of direction d
\* uses. A visibility test is only made after the existence query before it
\* has succeeded, and all() stops at the first cell that fails.
PassAccesses(d) ==
  CASE pc[d] = "find" ->
         LET r == next_face(face_finder[d], face_queue, size, d)
         IN next_face_reads(face_finder[d], face_queue, size, d)
              \cup (IF r.found
                    THEN {r.next_face} \cup face_visible_reads(r.next_face, d, size)
                    ELSE {})
    [] pc[d] = "width" ->
         LET nf == Offset(face[d], expand_direction(d), width[d], 0)
         IN face_exists_reads(nf, size)
              \cup (IF face_exists(nf, d, face_queue, size)
                    THEN face_visible_reads(nf, d, size)
                           \cup (IF face_visible(nf, d, voxels, size) THEN {nf} ELSE {})
                    ELSE {})
    [] pc[d] = "height" ->
         LET cell(w) == Offset(face[d], expand_direction(d), w, height[d])
             passes(w) == /\ face_exists(cell(w), d, face_queue, size)
                          /\ face_visible(cell(w), d, voxels, size)
             tested == { w \in 0..(width[d] - 1) : \A v \in 0..(w - 1) : passes(v) }
         IN UNION { face_exists_reads(cell(w), size)
                      \cup (IF face_exists(cell(w), d, face_queue, size)
                            THEN face_visible_reads(cell(w), d, size) ELSE {})
                    : w \in tested }
              \cup (IF \A w \in 0..(width[d] - 1) : passes(w)
                    THEN { cell(w) : w \in 0..(width[d] - 1) } ELSE {})
    [] OTHER -> {}

\* The coordinates with some component at or past the end of the grid.
PastEnd == ((0..(size + 1)) \X (0..(size + 1)) \X (0..(size + 1))) \ Cells(size)

\* A quad of direction d with seed f, width w and height h ends inside the
\* grid along its width and height axes.
Fits(f, w, h, d) ==
  LET far == Offset(f, expand_direction(d), w, h)
  IN far[1] <= size /\ far[2] <= size /\ far[3] <= size

\* C12: an existence query for a coordinate with a component >= N reads no
\* queue cell and returns false; during the whole call no read or write of
\* the grid or of a queue uses a coordinate outside [0, N) on any axis; and
\* every quad, emitted or under construction, has seed + width <= N along
\* its width axis and seed + height <= N along its height axis.
C12_NoOutOfRangeAccess ==
  /\ \A f \in PastEnd :
       /\ face_exists_reads(f, size) = {}
       /\ \A d \in Directions : ~face_exists(f, d, face_queue, size)
  /\ phase = "init" => InitAccesses \subseteq Cells(size)
  /\ phase = "mesh" => \A d \in Directions : PassAccesses(d) \subseteq Cells(size)
  /\ \A d \in Directions :
       /\ \A k \in 1..Len(quads[d]) :
            Fits(quads[d][k][1], quads[d][k][2], quads[d][k][3], d)
       /\ pc[d] \in {"width", "height", "emit"} =>
            Fits(face[d], width[d], IF pc[d] = "width" THEN 1 ELSE height[d], d)

\* The width loop asks for the cell past the end of the grid, after it has
\* widened the quad to the edge, in a call that has already emitted a quad.
C12_Witness ==
  \E d \in Directions :
    /\ pc[d] = "width" /\ width[d] >= 2
    /\ OutOfRange(Offset(face[d], expand_direction(d), width[d], 0), size)
    /\ \E e \in Directions : Len(quads[e]) >= 1


\* The w cells of row h of the quad of direction d with seed f.
Row(f, w, h, d) == { Offset(f, expand_direction(d), i, h) : i \in 0..(w - 1) }

\* C13: each quad is the greedy width-then-height maximal rectangle for the
\* queue at the time it is built. Once the width loop has stopped, the cell
\* seed + width * widthAxis is out of range or not queued; once the height
\* loop has stopped, some cell of row `height` is out of range or not
\* queued. A test that fails removes nothing from the queue, a width test
\* that succeeds removes exactly the tested cell, and a row test that
\* succeeds removes exactly the w cells of the row, all of them queued: no
\* cell of a partial row is removed.
C13_GreedyMaximal ==
  /\ [](\A d \in Directions :
          /\ pc[d] \in {"height", "emit"} =>
               ~face_exists(Offset(face[d], expand_direction(d), width[d], 0),
                            d, face_queue, size)
          /\ pc[d] = "emit" =>
               \E c \in Row(face[d], width[d], height[d], d) :
                 ~face_exists(c, d, face_queue, size))
  /\ [][ \A d \in Directions :
           LET removed == Queued(d) \ Queued(d)'
           IN /\ (pc[d] = "width" /\ pc'[d] = "height") => removed = {}
              /\ (pc[d] = "height" /\ pc'[d] = "emit") => removed = {}
              /\ (pc[d] = "width" /\ pc'[d] = "width" /\ width'[d] # width[d]) =>
                   /\ width'[d] = width[d] + 1
                   /\ removed = {Offset(face[d], expand_direction(d), width[d], 0)}
              /\ (pc[d] = "height" /\ pc'[d] = "height" /\ height'[d] # height[d]) =>
                   /\ height'[d] = height[d] + 1
                   /\ removed = Row(face[d], width[d], height[d], d)
                   /\ Cardinality(removed) = width[d]
              /\ pc[d] = "emit" => removed = {} ]_vars

\* The height loop has stopped at a partial row, of which one cell is
\* queued and another is in range and not queued, under a quad that has
\* grown in width.
C13_Witness ==
  \E d \in Directions :
    /\ pc[d] = "emit" /\ width[d] >= 2
    /\ \E c \in Row(face[d], width[d], height[d], d) :
         face_exists(c, d, face_queue, size)
    /\ \E c \in Row(face[d], width[d], height[d], d) :
         ~OutOfRange(c, size) /\ ~face_exists(c, d, face_queue, size)

====
